---- MODULE Spec2Model ----
(***************************************************************************)
(* Model of thqueue<T, Container> (src/thqueue.hpp): a bounded FIFO queue  *)
(* guarded by one mutex (m_lock) with two condition variables              *)
(* (m_notEmptyCond, m_notFullCond).                                        *)
(*                                                                         *)
(* Every access to m_queue and m_capacity happens with m_lock held, and a  *)
(* thread gives the lock up only by leaving the critical section or by     *)
(* parking in condition_variable::wait, which releases the lock and parks  *)
(* atomically.  One action of the model is therefore one whole critical    *)
(* section, from taking m_lock to unlocking or parking; in every state of  *)
(* the model m_lock is free.  What the code does after unlocking, the      *)
(* notify_one call, is a step of its own (pc = "notifyNE" / "notifyNF"),   *)
(* so other threads run between the unlock and the notification.           *)
(***************************************************************************)
EXTENDS Integers, Sequences, FiniteSets, Bags, TLC

\* ---- bounds of the model ------------------------------------------------
MaxItems == 3      \* items built and passed to put / try_put in a run
MaxCap   == 2      \* largest capacity argument tried (constructor, setter)
SizeBits == 3      \* width of size_type in the model (64 in the build)

\* The threads sharing the queue, as in main.cpp:75-79: producer threads and
\* one consumer thread.  Main is the thread that constructed the queue; it
\* is the one that calls capacity(n), which it may do at any moment.
Producers    == {1, 2}
Consumers    == {3}
Tasks        == Producers \cup Consumers
Main         == 0
SizeMod      == 2^SizeBits
\* thqueue.hpp:51  numeric_limits<size_type>::max()
MAX_CAPACITY == SizeMod - 1

\* An item is tagged by the thread that made it and a sequence number
\* (main.cpp:40 getdata(): "seq = <n> from pid <id>", n counted from 0).
Items  == Tasks \X (0..MaxItems)
NoItem == <<0, 0>>          \* a default-constructed value_type (empty string)

\* what a call returned: void, a bool, or get()'s value_type
RetVoid     == <<"void", NoItem>>
RetTrue     == <<"true", NoItem>>
RetFalse    == <<"false", NoItem>>
RetValue(v) == <<"value", v>>
\* thread t returned r from its call of o; NoReturn: the step returned nothing
Return(t, o, r) == <<t, o, r[1], r[2]>>
NoReturn        == <<0, "none", "none", NoItem>>

VARIABLES
    m_queue,      \* std::queue<T,Container>, front first
    m_capacity,   \* size_type
    pc,           \* per thread: where it is in its current call
    op,           \* per thread: the operation it is executing
    val,          \* per thread: put's parameter val until it is moved into the
                  \* queue; get()'s local val from the pop to the return
    slot,         \* per thread: the object its value_type* argument points to
    ret,          \* the return made by the latest step: <<thread, call, kind, item>>
    seq,          \* main.cpp:37 static std::atomic<int> seq
    inserted,     \* history: items in the order their emplace took effect
    removed,      \* history: items in the order they were handed out
    ctor,         \* history: the constructor call, <<"default", 0>> or <<"cap", r>>
    limit         \* getdata calls made before main.cpp:83 sets stop

vars == <<m_queue, m_capacity, pc, op, val, slot, ret, seq, inserted, removed, ctor, limit>>

\* ---- arithmetic of size_type ---------------------------------------------
Max(a, b) == IF a >= b THEN a ELSE b

\* conversion of an integer argument to the unsigned size_t parameter
ToSizeT(r) == r % SizeMod

\* a constructor that stores its argument as it is
CtorCapacityUnclamped(r) == ToSizeT(r)

\* thqueue.hpp:71  m_capacity(std::max<size_type>(cap, 1))
CtorCapacity(r) == Max(ToSizeT(r), 1)

\* a default constructor that delegates to thqueue(1)
DefaultCapacityOne == CtorCapacity(1)

\* thqueue.hpp:68  m_capacity(MAX_CAPACITY)
DefaultCapacity == MAX_CAPACITY

\* ---- the container -------------------------------------------------------
EmplaceFront(q, v) == <<v>> \o q   \* a container that inserts at the head
PopNothing(q) == q                 \* a pop that leaves the item in place

Emplace(q, v) == Append(q, v)      \* std::queue::emplace -> push_back
Front(q)      == Head(q)           \* std::queue::front
Pop(q)        == Tail(q)           \* std::queue::pop -> pop_front

\* ---- introspection (thqueue.hpp:73-91), snapshots taken under the lock ---
empty    == Len(m_queue) = 0
capacity == m_capacity
size     == Len(m_queue)

\* ---- predicates of the critical sections ---------------------------------
\* the comparison with > in place of >=
IsFullOffByOne(n, cap) == n > cap

\* thqueue.hpp:95,108  m_queue.size() >= m_capacity
IsFull(n, cap) == n >= cap

\* an insertion that never sees the queue as having been empty
WasEmptyNever(n) == FALSE

\* thqueue.hpp:97,111  wasEmpty / n == 0
WasEmpty(n) == n = 0

\* the comparison against m_capacity in place of m_capacity-1
BecameNotFullOffByOne(n, cap) == n = cap

\* a removal that signals whenever it leaves room
BecameNotFullAnyRoom(n, cap) == n < cap

\* thqueue.hpp:124,136,149  m_queue.size() == m_capacity-1, in size_type
BecameNotFull(n, cap) == n = (cap + SizeMod - 1) % SizeMod

\* ---- condition variables -------------------------------------------------
NotEmptyWaiters == {w \in Tasks : pc[w] = "waitNE"}
NotFullWaiters  == {w \in Tasks : pc[w] = "waitNF"}

\* arguments tried with capacity(n)
CapArgs == 0..MaxCap

\* ---- construction (thqueue.hpp:68, 71) -----------------------------------
\* the state after one of the constructor calls in calls: <<"default", 0>>
\* is thqueue(), <<"cap", r>> is thqueue(r); the producers will make n
\* getdata calls in all, one per insertion (main.cpp:50, while (!stop))
Started(calls, n) ==
    /\ limit = n
    /\ ctor \in calls
    /\ m_capacity = IF ctor[1] = "default" THEN DefaultCapacity
                                           ELSE CtorCapacity(ctor[2])
    /\ m_queue = <<>>
    /\ pc = [t \in Tasks |-> "idle"]
    /\ op = [t \in Tasks |-> "none"]
    /\ val = [t \in Tasks |-> NoItem]
    /\ slot = [t \in Tasks |-> NoItem]
    /\ ret = NoReturn
    /\ seq = 0
    /\ inserted = <<>>
    /\ removed = <<>>

\* the threads build and insert MaxItems items in all before they stop
Constructed(calls) == Started(calls, MaxItems)

\* main.cpp:9 constructs the queue with a capacity; here the largest tried
Init == Constructed({<<"cap", MaxCap>>})

\* ---- the items the threads insert -----------------------------------------
\* main.cpp:34-43 getdata(), called by thread t to build the argument of the
\* insertion it is about to call (main.cpp:51): seq++ yields the value seq had
\* before the increment, streamed with the caller's id.  The call is a step of
\* its own: the thread does not hold m_lock, and other threads run between it
\* and the insertion.
getdata(t) ==
    /\ pc[t] = "idle"
    /\ seq < limit
    /\ val' = [val EXCEPT ![t] = <<t, seq>>]
    /\ seq' = seq + 1
    /\ pc' = [pc EXCEPT ![t] = "data"]
    /\ ret' = NoReturn
    /\ UNCHANGED <<m_queue, m_capacity, op, slot, inserted, removed, ctor, limit>>

\* ---- put (thqueue.hpp:93-103) -------------------------------------------
\* lines 97-102, the predicate size < capacity holds: emplace moves val into
\* the queue; leave through notify_one on m_notEmptyCond if the queue was
\* empty, else return.
PutInsert(t, v) ==
    /\ m_queue' = Emplace(m_queue, v)
    /\ inserted' = Append(inserted, v)
    /\ val' = [val EXCEPT ![t] = NoItem]
    /\ IF WasEmpty(Len(m_queue))
          THEN /\ pc' = [pc EXCEPT ![t] = "notifyNE"]
               /\ op' = [op EXCEPT ![t] = "put"]
               /\ ret' = NoReturn
          ELSE /\ pc' = [pc EXCEPT ![t] = "idle"]
               /\ op' = [op EXCEPT ![t] = "none"]
               /\ ret' = Return(t, "put", RetVoid)

\* lines 94-96: take the lock; park on m_notFullCond while size >= capacity
PutSection(t, v) ==
    IF IsFull(Len(m_queue), m_capacity)
       THEN /\ pc' = [pc EXCEPT ![t] = "waitNF"]
            /\ op' = [op EXCEPT ![t] = "put"]
            /\ val' = [val EXCEPT ![t] = v]
            /\ ret' = NoReturn
            /\ UNCHANGED <<m_queue, inserted>>
       ELSE PutInsert(t, v)

put(t) ==
    /\ pc[t] = "data"
    /\ PutSection(t, val[t])
    /\ UNCHANGED <<m_capacity, slot, seq, removed, ctor, limit>>

\* ---- try_put (thqueue.hpp:105-116) --------------------------------------
\* a try_put that waits on m_notFullCond when it finds the queue full
try_put_parking(t) ==
    /\ pc[t] = "data"
    /\ LET v == val[t]
           n == Len(m_queue)
       IN
         IF IsFull(n, m_capacity)
            THEN /\ pc' = [pc EXCEPT ![t] = "waitNF"]
                 /\ op' = [op EXCEPT ![t] = "try_put"]
                 /\ ret' = NoReturn
                 /\ UNCHANGED <<m_queue, inserted, val>>
            ELSE /\ m_queue' = Emplace(m_queue, v)
                 /\ inserted' = Append(inserted, v)
                 /\ val' = [val EXCEPT ![t] = NoItem]
                 /\ IF WasEmpty(n)
                       THEN /\ pc' = [pc EXCEPT ![t] = "notifyNE"]
                            /\ op' = [op EXCEPT ![t] = "try_put"]
                            /\ ret' = NoReturn
                       ELSE /\ pc' = [pc EXCEPT ![t] = "idle"]
                            /\ ret' = Return(t, "try_put", RetTrue)
                            /\ UNCHANGED op
    /\ UNCHANGED <<m_capacity, slot, seq, removed, ctor, limit>>

\* the argument is the temporary getdata() returned: moved into the queue at
\* line 111, or destroyed unused at the end of the caller's statement after
\* return false (line 109)
try_put(t) ==
    /\ pc[t] = "data"
    /\ val' = [val EXCEPT ![t] = NoItem]
    /\ LET v == val[t]
           n == Len(m_queue)
       IN
         IF IsFull(n, m_capacity)
            THEN /\ pc' = [pc EXCEPT ![t] = "idle"]
                 /\ ret' = Return(t, "try_put", RetFalse)
                 /\ UNCHANGED <<m_queue, inserted, op>>
            ELSE /\ m_queue' = Emplace(m_queue, v)
                 /\ inserted' = Append(inserted, v)
                 /\ IF WasEmpty(n)
                       THEN /\ pc' = [pc EXCEPT ![t] = "notifyNE"]
                            /\ op' = [op EXCEPT ![t] = "try_put"]
                            /\ ret' = NoReturn
                       ELSE /\ pc' = [pc EXCEPT ![t] = "idle"]
                            /\ ret' = Return(t, "try_put", RetTrue)
                            /\ UNCHANGED op
    /\ UNCHANGED <<m_capacity, slot, seq, removed, ctor, limit>>

\* ---- removal: get(value_type*), get(), try_get(value_type*) -------------
\* what each form returns after a removal
Returned(form, item) ==
    CASE form = "put"     -> RetVoid
      [] form = "try_put" -> RetTrue
      [] form = "get"     -> RetValue(item)
      [] form = "get_ptr" -> RetVoid
      [] OTHER            -> RetTrue

\* thqueue.hpp:122-127, 134-140, 147-153: move the front item out, pop, and
\* leave through notify_one on m_notFullCond when size() == m_capacity-1.
\* get() moves the item into its local val, which it returns; the pointer
\* forms move it into *val, the caller's slot.
Remove(t, form) ==
    LET item   == Front(m_queue)
        signal == BecameNotFull(Len(Pop(m_queue)), m_capacity)
    IN
    /\ m_queue' = Pop(m_queue)
    /\ removed' = Append(removed, item)
    /\ slot' = IF form = "get" THEN slot ELSE [slot EXCEPT ![t] = item]
    /\ val' = [val EXCEPT ![t] = IF form = "get" /\ signal THEN item ELSE NoItem]
    /\ IF signal
          THEN /\ pc' = [pc EXCEPT ![t] = "notifyNF"]
               /\ op' = [op EXCEPT ![t] = form]
               /\ ret' = NoReturn
          ELSE /\ pc' = [pc EXCEPT ![t] = "idle"]
               /\ op' = [op EXCEPT ![t] = "none"]
               /\ ret' = Return(t, form, Returned(form, item))

\* thqueue.hpp:119-121, 131-133: take the lock; park on m_notEmptyCond while
\* the queue is empty
GetSection(t, form) ==
    IF Len(m_queue) = 0
       THEN /\ pc' = [pc EXCEPT ![t] = "waitNE"]
            /\ op' = [op EXCEPT ![t] = form]
            /\ ret' = NoReturn
            /\ UNCHANGED <<m_queue, removed, val, slot>>
       ELSE Remove(t, form)

\* thqueue.hpp:118-128
get_ptr(t) ==
    /\ pc[t] = "idle"
    /\ GetSection(t, "get_ptr")
    /\ UNCHANGED <<m_capacity, seq, inserted, ctor, limit>>

\* a get() that returns without the notify_one of lines 136-139
get_silent(t) ==
    /\ pc[t] = "idle"
    /\ IF Len(m_queue) = 0
          THEN /\ pc' = [pc EXCEPT ![t] = "waitNE"]
               /\ op' = [op EXCEPT ![t] = "get"]
               /\ ret' = NoReturn
               /\ UNCHANGED <<m_queue, removed>>
          ELSE /\ m_queue' = Pop(m_queue)
               /\ removed' = Append(removed, Front(m_queue))
               /\ ret' = Return(t, "get", RetValue(Front(m_queue)))
               /\ UNCHANGED <<pc, op>>
    /\ UNCHANGED <<m_capacity, val, slot, seq, inserted, ctor, limit>>

\* thqueue.hpp:130-141
get(t) ==
    /\ pc[t] = "idle"
    /\ GetSection(t, "get")
    /\ UNCHANGED <<m_capacity, seq, inserted, ctor, limit>>

\* a try_get that clears the caller's slot when it finds the queue empty
try_get_clearing(t) ==
    /\ pc[t] = "idle"
    /\ IF Len(m_queue) = 0
          THEN /\ ret' = Return(t, "try_get", RetFalse)
               /\ slot' = [slot EXCEPT ![t] = NoItem]
               /\ UNCHANGED <<m_queue, removed, val, pc, op>>
          ELSE Remove(t, "try_get")
    /\ UNCHANGED <<m_capacity, seq, inserted, ctor, limit>>

\* thqueue.hpp:143-154
try_get(t) ==
    /\ pc[t] = "idle"
    /\ IF Len(m_queue) = 0
          THEN /\ ret' = Return(t, "try_get", RetFalse)
               /\ UNCHANGED <<m_queue, removed, val, slot, pc, op>>
          ELSE Remove(t, "try_get")
    /\ UNCHANGED <<m_capacity, seq, inserted, ctor, limit>>

\* ---- capacity(size_type) (thqueue.hpp:83-86) ----------------------------
\* a setter that clamps like the constructor
capacity_set_clamped(n) ==
    /\ m_capacity' = Max(n, 1)
    /\ ret' = Return(Main, "capacity", RetVoid)
    /\ UNCHANGED <<m_queue, pc, op, val, slot, seq, inserted, removed, ctor, limit>>

capacity_set(n) ==
    /\ m_capacity' = n
    /\ ret' = Return(Main, "capacity", RetVoid)
    /\ UNCHANGED <<m_queue, pc, op, val, slot, seq, inserted, removed, ctor, limit>>

\* ---- condition_variable::wait with a predicate ---------------------------
\* a put whose wait has no predicate: once unblocked it inserts
ResumePutUnchecked(t) ==
    /\ \/ /\ pc[t] = "wokenNF"
          /\ PutInsert(t, val[t])
          /\ UNCHANGED <<slot, removed>>
       \/ /\ pc[t] = "wokenNE"
          /\ GetSection(t, op[t])
          /\ UNCHANGED inserted
    /\ UNCHANGED <<m_capacity, seq, ctor, limit>>

\* a get whose wait has no predicate: once unblocked it takes the front of
\* the queue, which on an empty container is whatever the build produces,
\* here a default value
ResumeGetUnchecked(t) ==
    /\ \/ /\ pc[t] = "wokenNF"
          /\ PutSection(t, val[t])
          /\ UNCHANGED <<slot, removed>>
       \/ /\ pc[t] = "wokenNE"
          /\ IF Len(m_queue) = 0
                THEN /\ removed' = Append(removed, NoItem)
                     /\ pc' = [pc EXCEPT ![t] = "idle"]
                     /\ ret' = Return(t, op[t], Returned(op[t], NoItem))
                     /\ op' = [op EXCEPT ![t] = "none"]
                     /\ UNCHANGED <<m_queue, val, slot>>
                ELSE Remove(t, op[t])
          /\ UNCHANGED inserted
    /\ UNCHANGED <<m_capacity, seq, ctor, limit>>

\* A parked thread that was unblocked takes m_lock again and evaluates the
\* predicate: thqueue.hpp:96 (put), 121 and 133 (get).
Resume(t) ==
    /\ \/ /\ pc[t] = "wokenNF"
          /\ PutSection(t, val[t])
          /\ UNCHANGED <<slot, removed>>
       \/ /\ pc[t] = "wokenNE"
          /\ GetSection(t, op[t])
          /\ UNCHANGED inserted
    /\ UNCHANGED <<m_capacity, seq, ctor, limit>>

\* wait may return without a notification (spurious wakeup)
SpuriousWake(t) ==
    /\ pc[t] \in {"waitNE", "waitNF"}
    /\ pc' = [pc EXCEPT ![t] = IF pc[t] = "waitNE" THEN "wokenNE" ELSE "wokenNF"]
    /\ ret' = NoReturn
    /\ UNCHANGED <<m_queue, m_capacity, op, val, slot, seq, inserted, removed, ctor, limit>>

\* ---- notify_one, called after g.unlock() ---------------------------------
\* notify_one unblocks one of the threads parked on the condition variable,
\* if there is any: thqueue.hpp:101,113 (m_notEmptyCond), 126,138,151
\* (m_notFullCond).  The caller then returns.
\* a notification that unblocks nobody
NotifyOneLost(t, waiters, woken) == pc' = [pc EXCEPT ![t] = "idle"]

NotifyOne(t, waiters, woken) ==
    IF waiters = {}
       THEN pc' = [pc EXCEPT ![t] = "idle"]
       ELSE \E w \in waiters : pc' = [pc EXCEPT ![t] = "idle", ![w] = woken]

Notify(t) ==
    /\ \/ /\ pc[t] = "notifyNE"
          /\ NotifyOne(t, NotEmptyWaiters, "wokenNE")
       \/ /\ pc[t] = "notifyNF"
          /\ NotifyOne(t, NotFullWaiters, "wokenNF")
    /\ ret' = Return(t, op[t], Returned(op[t], val[t]))
    /\ op' = [op EXCEPT ![t] = "none"]
    /\ val' = [val EXCEPT ![t] = NoItem]
    /\ UNCHANGED <<m_queue, m_capacity, slot, seq, inserted, removed, ctor, limit>>

\* ---- the threads ---------------------------------------------------------
Next ==
    \/ \E t \in Producers : getdata(t)
    \/ \E t \in Producers : put(t)
    \/ \E t \in Producers : try_put(t)
    \/ \E t \in Consumers : get_ptr(t)
    \/ \E t \in Consumers : get(t)
    \/ \E t \in Consumers : try_get(t)
    \/ \E n \in CapArgs : capacity_set(n)
    \/ \E t \in Tasks : Resume(t)
    \/ \E t \in Tasks : Notify(t)
    \/ \E t \in Tasks : SpuriousWake(t)

Spec == Init /\ [][Next]_vars

\* ---- a queue built with any constructor call, used by one thread ---------
\* constructor calls tried: thqueue() and thqueue(r), r reaching the size_t
\* parameter through ToSizeT
CtorArgs     == (0 - MaxCap)..MaxCap
AllCtorCalls == {<<"default", 0>>} \cup {<<"cap", r>> : r \in CtorArgs}

InitCtor == Constructed(AllCtorCalls)

\* thread 2 inserts and removes; nobody calls capacity(n)
NextCtor ==
    \/ getdata(2)
    \/ put(2)
    \/ try_put(2)
    \/ get_ptr(2)
    \/ get(2)
    \/ try_get(2)
    \/ Resume(2)
    \/ Notify(2)
    \/ SpuriousWake(2)

SpecCtor == InitCtor /\ [][NextCtor]_vars

\* ---- one producer, one consumer, fixed capacity, fair scheduling ----------
Producer == 1
Consumer == 3

InitPC == Constructed({<<"cap", r>> : r \in 1..MaxCap})

NextPC ==
    \/ getdata(Producer)
    \/ put(Producer)
    \/ try_put(Producer)
    \/ get_ptr(Consumer)
    \/ get(Consumer)
    \/ try_get(Consumer)
    \/ \E t \in {Producer, Consumer} : Resume(t)
    \/ \E t \in {Producer, Consumer} : Notify(t)
    \/ \E t \in {Producer, Consumer} : SpuriousWake(t)

\* A thread that was unblocked, or that has a notification to make, is
\* eventually scheduled.  Nothing obliges a thread to make another call, and
\* nothing obliges wait to return without a notification.
FairPC ==
    /\ InitPC
    /\ [][NextPC]_vars
    /\ \A t \in {Producer, Consumer} : WF_vars(Resume(t)) /\ WF_vars(Notify(t))

\* ---- one producer, two consumers, fixed capacity ---------------------------
\* thread 1 inserts, threads 2 and 3 remove; nobody calls capacity(n)
Next2C ==
    \/ getdata(1)
    \/ put(1)
    \/ try_put(1)
    \/ \E t \in {2, 3} : get_ptr(t)
    \/ \E t \in {2, 3} : get(t)
    \/ \E t \in {2, 3} : try_get(t)
    \/ \E t \in Tasks : Resume(t)
    \/ \E t \in Tasks : Notify(t)
    \/ \E t \in Tasks : SpuriousWake(t)

Spec2C == InitPC /\ [][Next2C]_vars

\* ---- two producers, one consumer, fixed capacity ---------------------------
\* threads 1 and 2 insert, thread 3 removes; nobody calls capacity(n).  The
\* producers make one call more than elsewhere, so that two of them can be
\* parked on a full queue of capacity 2.
Init2P == Started({<<"cap", r>> : r \in 1..MaxCap}, MaxItems + 1)

Next2P ==
    \/ \E t \in {1, 2} : getdata(t)
    \/ \E t \in {1, 2} : put(t)
    \/ \E t \in {1, 2} : try_put(t)
    \/ get_ptr(3)
    \/ get(3)
    \/ try_get(3)
    \/ \E t \in Tasks : Resume(t)
    \/ \E t \in Tasks : Notify(t)
    \/ \E t \in Tasks : SpuriousWake(t)

Spec2P == Init2P /\ [][Next2P]_vars

\* ---- one producer, one consumer, and capacity(n) calls ---------------------
NextPCS ==
    \/ NextPC
    \/ \E n \in CapArgs : capacity_set(n)

SpecPCS == InitPC /\ [][NextPCS]_vars

\* ---- types ---------------------------------------------------------------
Calls == {"put", "try_put", "get_ptr", "get", "try_get", "capacity"}
PCs   == {"idle", "data", "waitNE", "waitNF", "wokenNE", "wokenNF", "notifyNE", "notifyNF"}

TypeOK ==
    /\ \A i \in 1..Len(m_queue) : m_queue[i] \in Items
    /\ m_capacity \in 0..MAX_CAPACITY
    /\ \A t \in Tasks : /\ pc[t] \in PCs
                        /\ op[t] \in (Calls \ {"capacity"}) \cup {"none"}
                        /\ val[t] \in Items \cup {NoItem}
                        /\ slot[t] \in Items \cup {NoItem}
    /\ ret[1] \in Tasks \cup {Main}
    /\ ret[2] \in Calls \cup {"none"}
    /\ ret[3] \in {"none", "void", "true", "false", "value"}
    /\ ret[4] \in Items \cup {NoItem}
    /\ limit \in {MaxItems, MaxItems + 1}
    /\ seq \in 0..limit

\* ==== properties ==========================================================
IsPrefix(s, t) == Len(s) <= Len(t) /\ SubSeq(t, 1, Len(s)) = s

RECURSIVE BagOfSeq(_)
BagOfSeq(s) == IF s = <<>> THEN EmptyBag
                           ELSE BagOfSeq(Tail(s)) (+) SetToBag({Head(s)})

NoRepeat(s) == \A i, j \in 1..Len(s) : i # j => s[i] # s[j]

\* C1 - FIFO: the items handed out so far are a prefix of the items in the
\* order their insertions took effect, the queue holds the rest in that same
\* order, and the items of one thread come out in that thread's call order.
C1_Fifo ==
    /\ IsPrefix(removed, inserted)
    /\ inserted = removed \o m_queue
    /\ \A i, j \in 1..Len(removed) :
          (i < j /\ removed[i][1] = removed[j][1]) => removed[i][2] < removed[j][2]

\* two producers have inserted, two removals were made and an item waits
C1_Witness ==
    /\ Len(removed) = 2
    /\ Len(m_queue) = 1
    /\ removed[1][1] # removed[2][1]
    /\ removed[2][1] = m_queue[1][1]

\* C2 as stated - capacity bound: 0 <= size() <= capacity() in every state.
C2_Original == 0 <= size /\ size <= capacity

\* C2 as amended - the bound 0 <= size() <= capacity() holds after
\* construction and every step keeps it, except a capacity(n) call with
\* n < size().
C2_BoundKept ==
    /\ (0 <= size /\ size <= capacity)
    /\ [][(size <= capacity /\ ~(m_capacity' < m_capacity /\ m_capacity' < size))
            => (0 <= Len(m_queue') /\ Len(m_queue') <= m_capacity')]_vars

\* the queue is at its capacity with a producer parked in put
C2_Witness ==
    /\ size = capacity
    /\ capacity >= 1
    /\ pc[1] = "waitNF"

\* C3 - no loss, no duplication: the items inserted are, as a multiset, the
\* items handed out plus the items in the queue; no item is handed out twice.
C3_NoLossNoDup ==
    /\ BagOfSeq(inserted) = BagOfSeq(removed) (+) BagOfSeq(m_queue)
    /\ NoRepeat(removed)
    /\ NoRepeat(removed \o m_queue)

\* both producers are between their emplace and their return, the consumer
\* holds the second item it removed, and an item is queued
C3_Witness ==
    /\ Len(removed) = 2
    /\ slot[3] = removed[2]
    /\ Len(m_queue) = 1
    /\ pc[1] = "notifyNE"
    /\ pc[2] = "notifyNE"

\* C4 - full-queue rejection: a try_put that takes the lock with
\* size >= capacity returns false, leaves the items and the capacity as they
\* are, and signals nobody.
C4_FullRejection ==
    [][\A t \in Producers :
          (try_put(t) /\ Len(m_queue) >= m_capacity)
             => /\ ret' = Return(t, "try_put", RetFalse)
                /\ m_queue' = m_queue
                /\ m_capacity' = m_capacity
                /\ pc' = [pc EXCEPT ![t] = "idle"]]_vars

\* try_put has just returned false on a queue holding capacity() = 2 items
C4_Witness ==
    /\ ret = Return(1, "try_put", RetFalse)
    /\ size = 2
    /\ capacity = 2

\* C5 - empty-queue rejection: a try_get that takes the lock with size = 0
\* returns false, leaves the caller's slot, the queue and the capacity as
\* they are, and signals nobody.
C5_EmptyRejection ==
    [][\A t \in Consumers :
          (try_get(t) /\ Len(m_queue) = 0)
             => /\ ret' = Return(t, "try_get", RetFalse)
                /\ slot'[t] = slot[t]
                /\ m_queue' = <<>>
                /\ m_capacity' = m_capacity
                /\ pc' = pc]_vars

\* try_get has just returned false to a thread whose slot holds an item
C5_Witness ==
    /\ ret = Return(3, "try_get", RetFalse)
    /\ slot[3] # NoItem
    /\ empty

\* C6 - blocking put releases on space: a put parked on a queue of capacity 1
\* that a removal has emptied is woken, inserts its item, which is then the
\* only item, and returns.
C6_PutReleased ==
    \A v \in Items :
        /\ (pc[Producer] \in {"waitNF", "wokenNF"} /\ val[Producer] = v
               /\ m_capacity = 1 /\ m_queue = <<>>)
             ~> (m_queue = <<v>> /\ pc[Producer] = "notifyNE")
        /\ (pc[Producer] \in {"waitNF", "wokenNF"} /\ val[Producer] = v
               /\ m_capacity = 1 /\ m_queue = <<>>)
             ~> (ret = Return(Producer, "put", RetVoid))

\* the producer is parked in put, capacity 1, and a get has just emptied the
\* queue and is about to notify
C6_Witness ==
    /\ pc[Producer] = "waitNF"
    /\ m_capacity = 1
    /\ m_queue = <<>>
    /\ pc[Consumer] = "notifyNF"
    /\ op[Consumer] = "get"

\* C7 - blocking get releases on insert: a get parked on the empty queue,
\* once an insertion has made v the head, is woken and returns v (the
\* pointer form delivers v into the caller's slot).
C7_GetReleased ==
    \A v \in Items :
        /\ (pc[Consumer] \in {"waitNE", "wokenNE"} /\ op[Consumer] = "get"
               /\ m_queue # <<>> /\ Head(m_queue) = v)
             ~> (ret = Return(Consumer, "get", RetValue(v)))
        /\ (pc[Consumer] \in {"waitNE", "wokenNE"} /\ op[Consumer] = "get_ptr"
               /\ m_queue # <<>> /\ Head(m_queue) = v)
             ~> (ret = Return(Consumer, "get_ptr", RetVoid) /\ slot[Consumer] = v)

\* the consumer is parked in get and a put has just inserted the only item
\* and is about to notify
C7_Witness ==
    /\ pc[Consumer] = "waitNE"
    /\ op[Consumer] = "get"
    /\ Len(m_queue) = 1
    /\ pc[Producer] = "notifyNE"
    /\ op[Producer] = "put"

\* C8 - the capacity is at least 1 in every state: 1 <= capacity().
C8_CapacityAtLeastOne == 1 <= capacity

\* C9 as stated - thqueue(r) yields capacity max(r, 1) for every requested
\* r; zero and negative r yield 1.
C9_Original ==
    ctor[1] = "cap" => /\ capacity = Max(ctor[2], 1)
                       /\ (ctor[2] <= 0 => capacity = 1)

\* C9 as amended - thqueue(r) yields capacity max(r mod 2^w, 1): zero yields
\* 1, a positive r below 2^w is kept, and a negative r above -2^w yields
\* 2^w + r.
C9_CtorClamp ==
    ctor[1] = "cap" =>
        /\ (ctor[2] = 0 => capacity = 1)
        /\ (ctor[2] > 0 => capacity = ctor[2])
        /\ (ctor[2] < 0 => capacity = SizeMod + ctor[2])
        /\ capacity >= 1

\* a queue constructed with a negative argument, in use
C9_Witness ==
    /\ ctor[1] = "cap"
    /\ ctor[2] < 0
    /\ capacity = SizeMod + ctor[2]
    /\ size = 2

\* C10 - capacity(n) changes only the capacity: it stores n as it is, leaves
\* the items alone even when n is below size(), and wakes nobody.
C10_SetterFrame ==
    [][\A n \in CapArgs :
          capacity_set(n)
             => /\ m_capacity' = n
                /\ m_queue' = m_queue
                /\ Len(m_queue') = Len(m_queue)
                /\ pc' = pc
                /\ slot' = slot
                /\ inserted' = inserted
                /\ removed' = removed]_vars

\* capacity(0) has just returned on a queue of two items with a producer
\* parked in put
C10_Witness ==
    /\ ret = Return(Main, "capacity", RetVoid)
    /\ capacity = 0
    /\ size = 2
    /\ pc[1] = "waitNF"

\* C11 - try_put and try_get never suspend: a thread inside one of them is
\* never parked or waiting to be woken, it is at most on its way to
\* notify_one, and from there it returns.
C11_TryNeverSuspends ==
    /\ [](\A t \in Tasks :
            op[t] \in {"try_put", "try_get"} => pc[t] \in {"notifyNE", "notifyNF"})
    /\ (op[Producer] = "try_put") ~> (ret = Return(Producer, "try_put", RetTrue))
    /\ (op[Consumer] = "try_get") ~> (ret = Return(Consumer, "try_get", RetTrue))

\* try_put has inserted into the empty queue and is on its way to notify_one
\* while the consumer is parked in get
C11_Witness ==
    /\ op[Producer] = "try_put"
    /\ pc[Producer] = "notifyNE"
    /\ pc[Consumer] = "waitNE"

\* C12 - a default-constructed queue never refuses or suspends an insertion:
\* no put is parked, no try_put has returned false, every call made so far
\* has inserted its item (each item built was inserted, but the one a thread
\* is about to pass), and with no removal made size() is the number of calls.
C12_UnboundedNeverRefuses ==
    ctor[1] = "default" =>
        LET made == seq - Cardinality({t \in Tasks : pc[t] = "data"})
        IN /\ \A t \in Tasks : pc[t] \notin {"waitNF", "wokenNF"}
           /\ ~(ret[2] = "try_put" /\ ret[3] = "false")
           /\ Len(inserted) = made
           /\ (removed = <<>> => size = made)

\* three insertions into a default-constructed queue, the last a try_put
\* that returned true, and no removal
C12_Witness ==
    /\ ctor[1] = "default"
    /\ removed = <<>>
    /\ size = 3
    /\ ret = Return(2, "try_put", RetTrue)

\* what a call of get() / get(value_type*) by t has led to: the queue, the
\* capacity, the items handed out, where every thread is, and the item
\* delivered to t (through the return value, resp. through the slot)
GetOutcome(t) ==
    <<m_queue, m_capacity, removed, pc,
      IF pc[t] = "waitNE" THEN NoItem
      ELSE IF pc[t] = "idle" THEN ret[4] ELSE val[t]>>

GetPtrOutcome(t) ==
    <<m_queue, m_capacity, removed, pc,
      IF pc[t] = "waitNE" THEN NoItem ELSE slot[t]>>

\* the outcomes a removal call by t can have from the current state
Outcomes(t) ==
    LET qs == {m_queue} \cup (IF m_queue = <<>> THEN {} ELSE {Tail(m_queue)})
        vs == {NoItem} \cup {m_queue[i] : i \in 1..Len(m_queue)}
    IN {<<q, m_capacity, IF q = m_queue THEN removed ELSE Append(removed, v),
          [pc EXCEPT ![t] = p], v>> :
            q \in qs, v \in vs, p \in {"waitNE", "notifyNF", "idle"}}

\* C13 - the two blocking removal forms are equivalent: from every state in
\* which a thread can call them, get() and get(value_type*) have the same
\* outcome: both park exactly when the queue is empty, otherwise both remove
\* the head, leave the same queue and go on to notify_one on m_notFullCond
\* under the same condition; the item comes back through the return value,
\* resp. through the slot.
C13_GetFormsEquivalent ==
    \A t \in Consumers :
        pc[t] = "idle" =>
            /\ ENABLED get(t)
            /\ ENABLED get_ptr(t)
            /\ \A o \in Outcomes(t) :
                  (ENABLED (get(t) /\ GetOutcome(t)' = o))
                    <=> (ENABLED (get_ptr(t) /\ GetPtrOutcome(t)' = o))

\* get() has returned an item to a thread whose slot holds another item,
\* delivered by get(value_type*), and the thread can call again
C13_Witness ==
    /\ ret[1] = 3
    /\ ret[2] = "get"
    /\ ret[3] = "value"
    /\ slot[3] # NoItem
    /\ slot[3] # ret[4]
    /\ removed # <<>>
    /\ pc[3] = "idle"
    /\ m_queue # <<>>

\* every thread is between calls or parked on m_notEmptyCond
QuietButNotEmptyWaiters == \A t \in Tasks : pc[t] \in {"idle", "waitNE"}

\* C14 - no lost wakeup on the consumer side: whenever the queue is
\* non-empty and no other operation is in progress, no thread is suspended
\* on m_notEmptyCond.
C14_NoParkedGetWithItems ==
    (m_queue # <<>> /\ QuietButNotEmptyWaiters) => NotEmptyWaiters = {}

\* every thread is between calls or parked on m_notFullCond
QuietButNotFullWaiters == \A t \in Tasks : pc[t] \in {"idle", "waitNF"}

\* C15 - no lost wakeup on the producer side: with a fixed capacity >= 2,
\* whenever size < capacity and no other operation is in progress, no thread
\* is suspended on m_notFullCond.
C15_NoParkedPutWithRoom ==
    (capacity >= 2 /\ size < capacity /\ QuietButNotFullWaiters)
        => NotFullWaiters = {}

\* C16 - after capacity(n) made room while a producer is parked in put, the
\* next successful removal wakes the producer: a removal that finds the
\* producer parked and leaves size < capacity goes on to notify_one on
\* m_notFullCond.
C16_NextRemovalWakes ==
    [][(/\ pc[Producer] = "waitNF"
        /\ Len(removed') = Len(removed) + 1
        /\ Len(m_queue') < m_capacity')
          => pc'[Consumer] = "notifyNF"]_vars

\* C17 - insertion guard: every step that inserts an item does so from a
\* state with size < capacity, the capacity in force at that moment; a put
\* that is unblocked while size >= capacity parks again without inserting.
C17_InsertionGuard ==
    [][/\ (Len(m_queue') > Len(m_queue) \/ inserted' # inserted)
            => (Len(m_queue) < m_capacity /\ m_capacity' = m_capacity)
       /\ \A t \in Tasks :
            (pc[t] = "wokenNF" /\ pc'[t] # "wokenNF" /\ Len(m_queue) >= m_capacity)
               => (pc'[t] = "waitNF" /\ m_queue' = m_queue)]_vars

\* a parked put was unblocked while the queue is still full, and a try_put
\* has just been refused
C17_Witness ==
    /\ pc[1] = "wokenNF"
    /\ size >= capacity
    /\ capacity >= 1
    /\ ret = Return(2, "try_put", RetFalse)

\* C18 - removal guard: every step that removes an item does so from a
\* non-empty queue and takes its front; a get that is unblocked while the
\* queue is empty (spuriously, or after another consumer took the item) parks
\* again without removing; hence every item handed out was inserted before.
C18_RemovalGuard ==
    /\ [](\A i \in 1..Len(removed) : \E j \in 1..Len(inserted) : removed[i] = inserted[j])
    /\ [][/\ removed' # removed
               => /\ m_queue # <<>>
                  /\ removed' = Append(removed, Head(m_queue))
                  /\ m_queue' = Tail(m_queue)
          /\ Len(m_queue') < Len(m_queue) => removed' # removed
          /\ \A t \in Tasks :
               (pc[t] = "wokenNE" /\ pc'[t] # "wokenNE" /\ m_queue = <<>>)
                  => (pc'[t] = "waitNE" /\ removed' = removed)]_vars

\* consumer 2 was signalled for an item that consumer 3 has just taken with
\* try_get: it is about to re-check on an empty queue
C18_Witness ==
    /\ pc[2] = "wokenNE"
    /\ m_queue = <<>>
    /\ removed # <<>>
    /\ ret = Return(3, "try_get", RetTrue)

\* the size at which a removal signals m_notFull: capacity - 1 in size_type
SignalSize == IF m_capacity = 0 THEN MAX_CAPACITY ELSE m_capacity - 1

\* C19 - a removal signals m_notFull exactly when the size it leaves equals
\* capacity - 1 in unsigned arithmetic; the signal unblocks exactly one
\* thread parked on m_notFull (none when nobody is parked); no removal that
\* leaves size >= capacity signals.
C19_RemovalSignal ==
    [][/\ removed' # removed
            => /\ (\E t \in Tasks : pc[t] # "notifyNF" /\ pc'[t] = "notifyNF")
                     <=> (Len(m_queue') = SignalSize)
               /\ Len(m_queue') >= m_capacity
                     => \A t \in Tasks : pc[t] # "notifyNF" => pc'[t] # "notifyNF"
       /\ (\E t \in Tasks : pc[t] # "notifyNF" /\ pc'[t] = "notifyNF")
            => removed' # removed
       /\ \A t \in Tasks :
            (pc[t] = "notifyNF" /\ pc'[t] # "notifyNF")
               => LET before == NotFullWaiters
                      after  == NotFullWaiters'
                  IN /\ after \subseteq before
                     /\ Cardinality(before \ after) = IF before = {} THEN 0 ELSE 1
                     /\ \A w \in before \ after : pc'[w] = "wokenNF"]_vars

\* a get has just removed an item and left the queue still at or over its
\* capacity (the capacity was lowered) while a producer is parked: the
\* consumer returned without signalling
C19_Witness ==
    /\ ret[1] = 3
    /\ ret[2] \in {"get", "get_ptr", "try_get"}
    /\ ret[3] \in {"value", "void", "true"}
    /\ pc[3] = "idle"
    /\ removed # <<>>
    /\ capacity >= 1
    /\ size >= capacity
    /\ pc[1] = "waitNF"

\* C20 - one producer and one consumer on a queue of fixed capacity >= 1
\* never deadlock: the producer is never parked on m_notFull while the
\* consumer is parked on m_notEmpty, and neither is parked with its
\* predicate true (size < capacity, resp. size > 0) while the other is idle.
C20_NoDeadlock ==
    /\ ~(pc[Producer] = "waitNF" /\ pc[Consumer] = "waitNE")
    /\ ~(pc[Producer] = "waitNF" /\ size < capacity /\ pc[Consumer] = "idle")
    /\ ~(pc[Consumer] = "waitNE" /\ size > 0 /\ pc[Producer] \in {"idle", "data"})

\* the producer is parked on a queue of capacity 2 from which the consumer
\* has just taken one of the two items and has yet to notify
C20_Witness ==
    /\ pc[Producer] = "waitNF"
    /\ m_capacity = 2
    /\ size = 1
    /\ pc[Consumer] = "notifyNF"
====
